---- MODULE Spec2Model ----
(***************************************************************************)
(* A model of the sharpvik/mux request router: the routing tree            *)
(* (router.go), its filters and the path-template compiler (filters.go),   *)
(* and the path-variable helpers (util.go).                                *)
(*                                                                         *)
(* Strings are sequences of tokens.  A token is one character, written as  *)
(* a one-character string, except that a regular-expression escape (\d,    *)
(* \w, \., \{, \}) and a bracket class ([1-9], [a-zA-Z_]) count as one     *)
(* token each, the way regexp/syntax lexes them.                           *)
(***************************************************************************)
EXTENDS Integers, Sequences, FiniteSets, TLC

\* ------------------------------------------------------------------ bounds
\* The most nodes a routing tree holds (the root included).
MaxNodes == 4
\* The most configuration calls made on a tree.
MaxCalls == 4
\* The longest request path of the filter bench, in characters.
MaxPathLen == 4

\* ----------------------------------------------------------- strings (Go)
Nil == "nil"

Digit == {"0", "1", "2", "3", "4", "5", "6", "7", "8", "9"}
NonZeroDigit == Digit \ {"0"}
Lower == {"a", "b", "c", "d", "e", "f", "g", "h", "i", "j", "k", "l", "m",
          "n", "o", "p", "q", "r", "s", "t", "u", "v", "w", "x", "y", "z"}
Upper == {"A", "B", "C", "D", "E", "F", "G", "H", "I", "J", "K", "L", "M",
          "N", "O", "P", "Q", "R", "S", "T", "U", "V", "W", "X", "Y", "Z"}
Letter == Lower \cup Upper
Word == Letter \cup Digit \cup {"_"}

\* s[from..to] (1-based, inclusive); empty when from > to.
Slice(s, from, to) == [k \in 1..(to - from + 1) |-> s[from + k - 1]]

\* strings.HasPrefix
HasPrefix(s, p) == Len(p) <= Len(s) /\ Slice(s, 1, Len(p)) = p

\* strings.TrimPrefix
TrimPrefix(s, p) == IF HasPrefix(s, p) THEN Slice(s, Len(p) + 1, Len(s)) ELSE s

\* strings.Split(s, sep) for a one-character separator: the pieces between
\* the separators, Len = number of separators + 1.
RECURSIVE SplitFrom(_, _, _, _)
SplitFrom(s, sep, i, cur) ==
    IF i > Len(s) THEN <<cur>>
    ELSE IF s[i] = sep THEN <<cur>> \o SplitFrom(s, sep, i + 1, <<>>)
    ELSE SplitFrom(s, sep, i + 1, Append(cur, s[i]))

Split(s, sep) == SplitFrom(s, sep, 1, <<>>)

\* strings.Join(parts, sep), each part preceded by sep (the template shape
\* "/" + seg + "/" + seg ...).
RECURSIVE JoinSlash(_)
JoinSlash(parts) ==
    IF parts = <<>> THEN <<>>
    ELSE <<"/">> \o Head(parts) \o JoinSlash(Tail(parts))

\* ------------------------------------------- regular expressions (regexp)
\* The syntax tree regexp.Compile builds.  The subset modelled: literals,
\* ".", "^", "$", escapes and bracket classes (one token each), groups,
\* alternation, and the repetitions * + ? {n} with an optional lazy "?".
ReSet(cs) == [k |-> "set", cs |-> cs]
ReAny == [k |-> "any"]
ReBol == [k |-> "bol"]
ReEol == [k |-> "eol"]
ReCat(xs) == [k |-> "cat", xs |-> xs]
ReAlt(xs) == [k |-> "alt", xs |-> xs]
ReStar(x) == [k |-> "star", x |-> x]
RePlus(x) == [k |-> "plus", x |-> x]
ReOpt(x) == [k |-> "opt", x |-> x]
ReRep(x, n) == [k |-> "rep", x |-> x, n |-> n]

\* The tokens that stand for a set of characters.
ClassTokens == {"\\d", "\\w", "\\.", "\\{", "\\}", "[1-9]", "[a-zA-Z_]"}

ClassOf(t) ==
    CASE t = "\\d" -> Digit
      [] t = "\\w" -> Word
      [] t = "\\." -> {"."}
      [] t = "\\{" -> {"{"}
      [] t = "\\}" -> {"}"}
      [] t = "[1-9]" -> NonZeroDigit
      [] t = "[a-zA-Z_]" -> Letter \cup {"_"}

DigitValue(c) ==
    CASE c = "0" -> 0 [] c = "1" -> 1 [] c = "2" -> 2 [] c = "3" -> 3
      [] c = "4" -> 4 [] c = "5" -> 5 [] c = "6" -> 6 [] c = "7" -> 7
      [] c = "8" -> 8 [] c = "9" -> 9

ParseError == [ok |-> FALSE, ast |-> Nil, pos |-> 0]
Parsed(ast, pos) == [ok |-> TRUE, ast |-> ast, pos |-> pos]

\* Whether a counted repetition {n} starts at pos.
IsRepeatAt(re, pos) ==
    /\ pos + 2 <= Len(re)
    /\ re[pos] = "{"
    /\ re[pos + 1] \in Digit
    /\ re[pos + 2] = "}"

RECURSIVE ParseAlt(_, _), ParseAltRest(_, _, _), ParseCat(_, _, _),
          ParseRep(_, _), ParsePostfix(_, _, _, _), ParseAtom(_, _),
          CloseGroup(_, _), CatNext(_, _, _), AltNext(_, _, _)

\* atom: a group, a class, ".", an anchor or a literal character.
ParseAtom(re, pos) ==
    LET t == re[pos] IN
    CASE t = "(" ->
            IF pos + 1 <= Len(re) /\ re[pos + 1] = "?" THEN ParseError
            ELSE CloseGroup(re, ParseAlt(re, pos + 1))
      [] t \in {"*", "+", "?"} -> ParseError  \* missing argument to repetition
      [] t = "{" /\ IsRepeatAt(re, pos) -> ParseError
      [] t \in {"\\", "["} -> ParseError  \* trailing backslash, missing ]
      [] t = "." -> Parsed(ReAny, pos + 1)
      [] t = "^" -> Parsed(ReBol, pos + 1)
      [] t = "$" -> Parsed(ReEol, pos + 1)
      [] t \in ClassTokens -> Parsed(ReSet(ClassOf(t)), pos + 1)
      [] OTHER -> Parsed(ReSet({t}), pos + 1)

\* The end of a group whose inside parsed as r.
CloseGroup(re, r) ==
    IF r.ok /\ r.pos <= Len(re) /\ re[r.pos] = ")"
    THEN Parsed(r.ast, r.pos + 1)
    ELSE ParseError  \* missing closing )

\* The repetition operators after an atom.  rep is 0 after the atom, 1 right
\* after a repetition operator (only a lazy "?" may follow) and 2 after that
\* "?" (nothing may follow).
ParsePostfix(re, pos, ast, rep) ==
    IF pos > Len(re) THEN Parsed(ast, pos)
    ELSE LET t == re[pos]
             op == t \in {"*", "+", "?"} \/ (t = "{" /\ IsRepeatAt(re, pos))
         IN
         CASE ~op -> Parsed(ast, pos)
           [] op /\ rep = 1 /\ t = "?" -> ParsePostfix(re, pos + 1, ast, 2)
           [] op /\ rep # 0 /\ ~(rep = 1 /\ t = "?") -> ParseError
           [] op /\ rep = 0 /\ t = "*" ->
                ParsePostfix(re, pos + 1, ReStar(ast), 1)
           [] op /\ rep = 0 /\ t = "+" ->
                ParsePostfix(re, pos + 1, RePlus(ast), 1)
           [] op /\ rep = 0 /\ t = "?" ->
                ParsePostfix(re, pos + 1, ReOpt(ast), 1)
           [] op /\ rep = 0 /\ t = "{" ->
                ParsePostfix(re, pos + 3,
                             ReRep(ast, DigitValue(re[pos + 1])), 1)

\* The repetition operators after the atom a.
PostfixOf(re, a) ==
    IF a.ok THEN ParsePostfix(re, a.pos, a.ast, 0) ELSE ParseError

ParseRep(re, pos) == PostfixOf(re, ParseAtom(re, pos))

\* A concatenation: repetitions up to the end, a "|" or a ")".
ParseCat(re, pos, xs) ==
    IF pos > Len(re) \/ re[pos] \in {"|", ")"} THEN Parsed(ReCat(xs), pos)
    ELSE CatNext(re, xs, ParseRep(re, pos))

\* The concatenation xs goes on after the repetition r.
CatNext(re, xs, r) ==
    IF r.ok THEN ParseCat(re, r.pos, Append(xs, r.ast)) ELSE ParseError

ParseAltRest(re, pos, xs) ==
    IF pos <= Len(re) /\ re[pos] = "|"
    THEN AltNext(re, xs, ParseCat(re, pos + 1, <<>>))
    ELSE Parsed(ReAlt(xs), pos)

\* The alternation xs goes on after the concatenation c.
AltNext(re, xs, c) ==
    IF c.ok THEN ParseAltRest(re, c.pos, Append(xs, c.ast)) ELSE ParseError

ParseAlt(re, pos) == AltNext(re, <<>>, ParseCat(re, pos, <<>>))

\* regexp.Compile: [ok, ast]; ok is FALSE where Compile returns an error.
Compile(re) ==
    LET r == ParseAlt(re, 1) IN
    IF r.ok /\ r.pos = Len(re) + 1 THEN [ok |-> TRUE, ast |-> r.ast]
    ELSE [ok |-> FALSE, ast |-> Nil]  \* also: unexpected )

\* The positions (0..Len(s), counted in tokens consumed) where a match of
\* ast can end when it starts at one of the positions from.
RECURSIVE Ends(_, _, _), CatEnds(_, _, _), StarEnds(_, _, _),
          StarStep(_, _, _, _), RepEnds(_, _, _, _)

Ends(ast, s, from) ==
    CASE ast.k = "set" ->
            {i + 1 : i \in {j \in from : j < Len(s) /\ s[j + 1] \in ast.cs}}
      [] ast.k = "any" -> {i + 1 : i \in {j \in from : j < Len(s)}}
      [] ast.k = "bol" -> from \cap {0}
      [] ast.k = "eol" -> from \cap {Len(s)}
      [] ast.k = "cat" -> CatEnds(ast.xs, s, from)
      [] ast.k = "alt" ->
            UNION {Ends(ast.xs[n], s, from) : n \in DOMAIN ast.xs}
      [] ast.k = "star" -> StarEnds(ast.x, s, from)
      [] ast.k = "plus" -> StarEnds(ast.x, s, Ends(ast.x, s, from))
      [] ast.k = "opt" -> from \cup Ends(ast.x, s, from)
      [] ast.k = "rep" -> RepEnds(ast.x, ast.n, s, from)

CatEnds(xs, s, from) ==
    IF xs = <<>> \/ from = {} THEN from
    ELSE CatEnds(Tail(xs), s, Ends(Head(xs), s, from))

StarEnds(x, s, from) == StarStep(x, s, from, from \cup Ends(x, s, from))

\* One more round of x while it reaches new positions.
StarStep(x, s, from, more) ==
    IF more = from THEN from ELSE StarEnds(x, s, more)

RepEnds(x, n, s, from) ==
    IF n = 0 THEN from ELSE RepEnds(x, n - 1, s, Ends(x, s, from))

\* Regexp.MatchString: whether some substring of s matches (the search is not
\* anchored: a match may start and end anywhere in s).  A compiled Regexp is
\* kept as its expression text re, which is known to compile.
MatchString(re, s) == Ends(Compile(re).ast, s, 0..Len(s)) # {}

\* ----------------------------------------------------- numbers (strconv)
\* An integer is kept as its sign and its decimal digits without leading
\* zeros, so that no width of the model checker's integers limits it.
RECURSIVE StripZeros(_)
StripZeros(ds) ==
    IF Len(ds) > 1 /\ Head(ds) = "0" THEN StripZeros(Tail(ds)) ELSE ds

AllDigits(ds) == ds # <<>> /\ \A k \in DOMAIN ds : ds[k] \in Digit

\* a <= b for two digit strings without leading zeros.
RECURSIVE DigitsLeq(_, _)
DigitsLeq(a, b) ==
    IF Len(a) # Len(b) THEN Len(a) < Len(b)
    ELSE IF a = <<>> THEN TRUE
    ELSE IF Head(a) # Head(b) THEN DigitValue(Head(a)) < DigitValue(Head(b))
    ELSE DigitsLeq(Tail(a), Tail(b))

\* 1<<63 - 1, 1<<63 and 1<<64 - 1 (int and uint are 64 bits wide).
MaxInt64Digits ==
    <<"9", "2", "2", "3", "3", "7", "2", "0", "3", "6", "8", "5", "4", "7",
      "7", "5", "8", "0", "7">>
MinInt64Digits ==
    <<"9", "2", "2", "3", "3", "7", "2", "0", "3", "6", "8", "5", "4", "7",
      "7", "5", "8", "0", "8">>
MaxUint64Digits ==
    <<"1", "8", "4", "4", "6", "7", "4", "4", "0", "7", "3", "7", "0", "9",
      "5", "5", "1", "6", "1", "5">>

IntValue(neg, mag) ==
    [t |-> "int", neg |-> neg /\ mag # <<"0">>, mag |-> mag]
UintValue(mag) == [t |-> "uint", mag |-> mag]
StrValue(s) == [t |-> "string", s |-> s]

\* strconv.Atoi: [v, err]; v is 0 on a syntax error and the nearest bound on
\* a range error.
Atoi(s) ==
    LET signed == s # <<>> /\ Head(s) \in {"+", "-"}
        neg == s # <<>> /\ Head(s) = "-"
        body == IF signed THEN Tail(s) ELSE s
        mag == StripZeros(body)
    IN
    IF ~AllDigits(body) THEN [v |-> IntValue(FALSE, <<"0">>), err |-> TRUE]
    ELSE IF ~neg /\ ~DigitsLeq(mag, MaxInt64Digits)
    THEN [v |-> IntValue(FALSE, MaxInt64Digits), err |-> TRUE]
    ELSE IF neg /\ ~DigitsLeq(mag, MinInt64Digits)
    THEN [v |-> IntValue(TRUE, MinInt64Digits), err |-> TRUE]
    ELSE [v |-> IntValue(neg, mag), err |-> FALSE]

\* strconv.ParseUint(s, 10, 0): no sign is accepted.
ParseUint(s) ==
    LET mag == StripZeros(s) IN
    IF ~AllDigits(s) THEN [v |-> UintValue(<<"0">>), err |-> TRUE]
    ELSE IF ~DigitsLeq(mag, MaxUint64Digits)
    THEN [v |-> UintValue(MaxUint64Digits), err |-> TRUE]
    ELSE [v |-> UintValue(mag), err |-> FALSE]

\* ------------------------------------------------- path templates (util)
\* The pattern of isVar, \{\w+:.+\}, compiled.
IsVarRegexp == <<"\\{", "\\w", "+", ":", ".", "+", "\\}">>

\* isVar: whether a template segment holds a {name:type} placeholder (the
\* search is not anchored to the segment's ends).
isVar(pattern) == MatchString(IsVarRegexp, pattern)

TypInt == <<"i", "n", "t">>
TypStr == <<"s", "t", "r">>
TypNat == <<"n", "a", "t">>

\* varData: the segment without its first and last character, split at ":";
\* panics when the type is none of int, str, nat and does not compile.
varData(pattern) ==
    LET trim == Slice(pattern, 2, Len(pattern) - 1)
        split == Split(trim, ":")
        name == split[1]
        typ == split[2]
    IN [name |-> name, typ |-> typ,
        panic |-> typ \notin {TypInt, TypStr, TypNat} /\ ~Compile(typ).ok]

\* ---------------------------------------------------- filters (filters.go)
\* The int pattern as it would be without the sign.
IntPatternUnsigned == <<"(", "[1-9]", "\\d", "*", "|", "0", ")">>

\* The patterns NewPathFilter puts in place of int, str and nat.
IntPattern == <<"(", "-", "?", "[1-9]", "\\d", "*", "|", "0", ")">>
StrPattern == <<"[a-zA-Z_]", "+">>
NatPattern == <<"(", "[1-9]", "\\d", "*", "|", "0", ")">>

\* The regular expression text NewPathFilter builds from the segments.
RECURSIVE TemplateExp(_)
TemplateExp(split) ==
    IF split = <<>> THEN <<>>
    ELSE LET e == Head(split)
             typ == varData(e).typ
             sub == IF ~isVar(e) THEN e
                    ELSE IF typ = TypInt THEN IntPattern
                    ELSE IF typ = TypStr THEN StrPattern
                    ELSE IF typ = TypNat THEN NatPattern
                    ELSE typ
         IN <<"/">> \o sub \o TemplateExp(Tail(split))

\* NewPathFilter: [panic, fil]; fil is the PathFilter {Path, Regexp, hasVars}.
NewPathFilter(path) ==
    IF path = <<>> THEN [panic |-> TRUE, fil |-> Nil]  \* index out of range
    ELSE LET p == IF path[1] # "/" THEN <<"/">> \o path ELSE path
             split == Tail(Split(p, "/"))
             vars == {k \in DOMAIN split : isVar(split[k])}
             exp == TemplateExp(split)
         IN
         IF (\E k \in vars : varData(split[k]).panic) \/ ~Compile(exp).ok
         THEN [panic |-> TRUE, fil |-> Nil]
         ELSE [panic |-> FALSE,
               fil |-> [Path |-> p, Regexp |-> exp,
                        hasVars |-> vars # {}]]

\* PathFilter.Match
PathFilterMatch(fil, urlPath) == MatchString(fil.Regexp, urlPath)

\* PathPrefixFilter.Match
PathPrefixFilterMatch(prefix, urlPath) == HasPrefix(urlPath, prefix)

\* An optional value (a nil-able pointer): None, or Some(x).
None == <<>>
Some(x) == <<x>>
Get(o) == o[1]

\* strings.ToLower, on the scheme names in use.
ToLower(str) ==
    CASE str = "HTTP" -> "http"
      [] str = "HTTPS" -> "https"
      [] OTHER -> str

\* newSet: the set of the items.
newSet(items) == {items[k] : k \in DOMAIN items}

\* set.Has
Has(set, item) == item \in set

\* MethodsFilter.Match as it would be if it compared without regard to case.
MethodsFilterMatchFold(fil, r) ==
    \E m \in fil :
        (IF m = "get" THEN "GET" ELSE m) =
            (IF r.Method = "get" THEN "GET" ELSE r.Method)

\* MethodsFilter.Match
MethodsFilterMatch(fil, r) == Has(fil, r.Method)

\* SchemesFilter.Match
SchemesFilterMatch(fil, r) ==
    LET scheme == IF r.Scheme # "" THEN r.Scheme
                  ELSE IF ~r.TLS THEN "http" ELSE "https"
    IN Has(fil, scheme)

\* NewFilters: the empty filter set.
NewFilters == [Schemes |-> None, Methods |-> None, Path |-> None,
               PathPrefix |-> None]

\* Filters.Match as it would be if one accepting filter were enough.
FiltersMatchAny(fils, r) ==
    \/ fils = [Schemes |-> None, Methods |-> None, Path |-> None,
               PathPrefix |-> None]
    \/ fils.Schemes # None /\ SchemesFilterMatch(Get(fils.Schemes), r)
    \/ fils.Methods # None /\ MethodsFilterMatch(Get(fils.Methods), r)
    \/ fils.Path # None /\ PathFilterMatch(Get(fils.Path), r.Path)
    \/ fils.PathPrefix # None /\
           PathPrefixFilterMatch(Get(fils.PathPrefix), r.Path)

\* Filters.Match: every filter that is set accepts the request.
FiltersMatch(fils, r) ==
    /\ fils.Schemes # None => SchemesFilterMatch(Get(fils.Schemes), r)
    /\ fils.Methods # None => MethodsFilterMatch(Get(fils.Methods), r)
    /\ fils.Path # None => PathFilterMatch(Get(fils.Path), r.Path)
    /\ fils.PathPrefix # None =>
           PathPrefixFilterMatch(Get(fils.PathPrefix), r.Path)

\* ------------------------------------------------------ router (router.go)
VARIABLES
    routers,   \* the Router nodes, by creation order; routers[1] is the root
    pathCalls, \* per node, the Path and PathPrefix calls made on it, in order
    calls,     \* the number of configuration calls made so far
    req,       \* the request being dispatched: Method, Path, Scheme, TLS
    ctxVars,   \* the request context's value under varsKey, if any
    cur,       \* the node whose ServeHTTP is running (0: none)
    pc,        \* the position inside ServeHTTP
    mwIdx,     \* the number of middleware handlers of cur already run
    log,       \* what the dispatch did so far, in order
    bench      \* the filter bench: a template, a path, and the results

vars == <<routers, pathCalls, calls, req, ctxVars, cur, pc, mwIdx, log, bench>>
treeVars == <<routers, pathCalls, calls>>
reqVars == <<req, ctxVars, cur, pc, mwIdx, log>>

DefaultFailHandler == "NotFoundHandler"

\* What a handler writes when it answers: the status and the body.  The
\* default fail handler is http.NotFoundHandler; f1 is a fail handler that
\* writes "not implemented" and a message of its own; any other handler
\* writes its name.
NotImplementedHandler == "NotImplementedHandler"
Response(h) ==
    CASE h = DefaultFailHandler ->
            [status |-> "404 Not Found", body |-> "404 page not found"]
      [] h = NotImplementedHandler ->
            [status |-> "501 Not Implemented",
             body |-> "Handler node did not have a view assigned to it."]
      [] h = "f1" -> [status |-> "501 Not Implemented", body |-> "lol fail"]
      [] OTHER -> [status |-> "200 OK", body |-> h]

\* New as it would be with a default fail handler that writes "not
\* implemented".
NewNotImplemented ==
    [handler |-> Nil, fail |-> NotImplementedHandler, routes |-> <<>>,
     filters |-> NewFilters, middleware |-> <<>>]

\* New: a node with no handler, the default fail handler, no routes, an
\* empty filter set and no middleware.
New == [handler |-> Nil, fail |-> DefaultFailHandler, routes |-> <<>>,
        filters |-> NewFilters, middleware |-> <<>>]

NoRequest == [Method |-> "", Path |-> <<>>, Scheme |-> "", TLS |-> FALSE]
NoBench == [stage |-> "off", T |-> <<>>, P |-> <<>>, fil |-> None,
            accepted |-> FALSE, panic |-> FALSE, entries |-> <<>>]

Nodes == DOMAIN routers

Idle == pc = "idle"
CanCall == Idle /\ calls < MaxCalls

\* -------------------------------------------------- the calls explored
TplSong == <<"/", "s", "/", "{", "i", ":", "i", "n", "t", "}">>
TplHome == <<"/", "a">>
TplBad == <<"/", "{", "f", ":", "(", "}">>
Templates == {TplSong, TplHome, TplBad}
PrefixApi == <<"/", "a">>
Prefixes == {PrefixApi}
MethodArgs == {<<"GET">>}
SchemeArgs == {<<"HTTPS">>}
Handlers == {"h1"}
FailHandlers == {"f1"}
Middlewares == {"m1", "m2"}

ReqPaths ==
    {<<"/">>,
     <<"/", "a">>,
     <<"/", "s", "/", "4", "2">>,
     <<"/", "a", "/", "s", "/", "4", "2">>,
     <<"/", "a", "/", "a", "/", "s", "/", "4", "2">>}
Requests ==
    {r \in [Method : {"GET", "POST"}, Path : ReqPaths, Scheme : {""},
            TLS : BOOLEAN] :
        (r.Method = "GET" /\ ~r.TLS) \/ r.Path = <<"/">>}

\* --------------------------------------------------- configuration calls
\* Router.Subrouter as it would be if the new node went to the front of the
\* parent's routes.
SubrouterPrepend(rtr) ==
    /\ CanCall
    /\ Len(routers) < MaxNodes
    /\ LET sub == Len(routers) + 1 IN
       routers' = Append([routers EXCEPT ![rtr].routes = <<sub>> \o @], New)
    /\ pathCalls' = Append(pathCalls, <<>>)
    /\ calls' = calls + 1
    /\ UNCHANGED <<reqVars, bench>>

\* Router.Subrouter: a new node, appended to the parent's routes.
Subrouter(rtr) ==
    /\ CanCall
    /\ Len(routers) < MaxNodes
    /\ LET sub == Len(routers) + 1 IN
       routers' = Append([routers EXCEPT ![rtr].routes = Append(@, sub)], New)
    /\ pathCalls' = Append(pathCalls, <<>>)
    /\ calls' = calls + 1
    /\ UNCHANGED <<reqVars, bench>>

\* Router.Methods
Methods(rtr, methods) ==
    /\ CanCall
    /\ routers' = [routers EXCEPT ![rtr].filters.Methods =
                       Some(newSet(methods))]
    /\ calls' = calls + 1
    /\ UNCHANGED <<pathCalls, reqVars, bench>>

\* Router.Path as it would be if it kept the PathPrefix filter.
PathFiltersKeepPrefix(fils, fil) == [fils EXCEPT !.Path = Some(fil)]

\* The filter set after Router.Path, given the new PathFilter.
PathFilters(fils, fil) == [fils EXCEPT !.Path = Some(fil), !.PathPrefix = None]

\* Router.Path as it would be if it cleared the PathPrefix filter before it
\* built the new PathFilter.
PathClearsPrefixFirst(rtr, path) ==
    /\ CanCall
    /\ LET new == NewPathFilter(path) IN
       IF new.panic
       THEN /\ pathCalls' = [pathCalls EXCEPT ![rtr] = Append(@, "PathPanic")]
            /\ routers' = [routers EXCEPT ![rtr].filters.PathPrefix = None]
       ELSE /\ routers' = [routers EXCEPT ![rtr].filters =
                               PathFilters(@, new.fil)]
            /\ pathCalls' = [pathCalls EXCEPT ![rtr] = Append(@, "Path")]
    /\ calls' = calls + 1
    /\ UNCHANGED <<reqVars, bench>>

\* Router.Path: NewPathFilter may panic, and then nothing is assigned.
Path(rtr, path) ==
    /\ CanCall
    /\ LET new == NewPathFilter(path) IN
       IF new.panic
       THEN /\ pathCalls' = [pathCalls EXCEPT ![rtr] = Append(@, "PathPanic")]
            /\ UNCHANGED routers
       ELSE /\ routers' = [routers EXCEPT ![rtr].filters =
                               PathFilters(@, new.fil)]
            /\ pathCalls' = [pathCalls EXCEPT ![rtr] = Append(@, "Path")]
    /\ calls' = calls + 1
    /\ UNCHANGED <<reqVars, bench>>

\* The filter set after Router.PathPrefix.
PathPrefixFilters(fils, prefix) ==
    [fils EXCEPT !.PathPrefix = Some(prefix), !.Path = None]

\* Router.PathPrefix
PathPrefix(rtr, prefix) ==
    /\ CanCall
    /\ routers' = [routers EXCEPT ![rtr].filters =
                       PathPrefixFilters(@, prefix)]
    /\ pathCalls' = [pathCalls EXCEPT ![rtr] = Append(@, "PathPrefix")]
    /\ calls' = calls + 1
    /\ UNCHANGED <<reqVars, bench>>

\* Router.Schemes: the names are lower-cased first.
Schemes(rtr, schemes) ==
    /\ CanCall
    /\ routers' = [routers EXCEPT ![rtr].filters.Schemes =
                       Some(newSet([k \in DOMAIN schemes |->
                                        ToLower(schemes[k])]))]
    /\ calls' = calls + 1
    /\ UNCHANGED <<pathCalls, reqVars, bench>>

\* Router.Handler, Router.HandleFunc
Handler(rtr, h) ==
    /\ CanCall
    /\ routers' = [routers EXCEPT ![rtr].handler = h]
    /\ calls' = calls + 1
    /\ UNCHANGED <<pathCalls, reqVars, bench>>

\* Router.Fail, Router.FailFunc
Fail(rtr, h) ==
    /\ CanCall
    /\ routers' = [routers EXCEPT ![rtr].fail = h]
    /\ calls' = calls + 1
    /\ UNCHANGED <<pathCalls, reqVars, bench>>

\* Router.Use, Router.UseFunc
Use(rtr, h) ==
    /\ CanCall
    /\ routers' = [routers EXCEPT ![rtr].middleware = Append(@, h)]
    /\ calls' = calls + 1
    /\ UNCHANGED <<pathCalls, reqVars, bench>>

\* ------------------------------------------------------------- dispatch
\* Router.Match as it would be if the loop kept the last accepting route.
MatchLast(rtr, r) ==
    LET routes == routers[rtr].routes
        hits == {k \in DOMAIN routes :
                     FiltersMatch(routers[routes[k]].filters, r)}
    IN IF hits = {} THEN 0
       ELSE routes[CHOOSE k \in hits : \A j \in hits : j <= k]

\* Router.Match: the first route, in registration order, whose filters accept
\* the request; 0 when none does.
Match(rtr, r) ==
    LET routes == routers[rtr].routes
        hits == {k \in DOMAIN routes :
                     FiltersMatch(routers[routes[k]].filters, r)}
    IN IF hits = {} THEN 0
       ELSE routes[CHOOSE k \in hits : \A j \in hits : k <= j]

\* ServeHTTP as it would be if it left the request path alone.
StripPrefixNever(fils, urlPath) == urlPath

\* ServeHTTP as it would be if a node with a Path filter cut the text of its
\* template from the request path.
StripPrefixOrPath(fils, urlPath) ==
    IF fils.PathPrefix # None THEN TrimPrefix(urlPath, Get(fils.PathPrefix))
    ELSE IF fils.Path # None THEN TrimPrefix(urlPath, Get(fils.Path).Path)
    ELSE urlPath

\* The request path after ServeHTTP cut the node's path prefix, if set.
StripPrefix(fils, urlPath) ==
    IF fils.PathPrefix # None THEN TrimPrefix(urlPath, Get(fils.PathPrefix))
    ELSE urlPath

\* The value Router.vars stores for a placeholder of type typ that captured
\* exp; conversion errors are discarded.
VarValue(typ, exp) ==
    IF typ = TypInt THEN Atoi(exp).v
    ELSE IF typ = TypNat THEN ParseUint(exp).v
    ELSE StrValue(exp)

\* The loop of Router.vars over the template's segments: for each
\* placeholder, in order, its name, type, captured text and value.
RECURSIVE VarEntries(_, _)
VarEntries(fsplit, rsplit) ==
    IF fsplit = <<>> THEN <<>>
    ELSE LET pat == Head(fsplit)
             exp == Head(rsplit)
             d == varData(pat)
             rest == VarEntries(Tail(fsplit), Tail(rsplit))
         IN IF ~isVar(pat) THEN rest
            ELSE <<[name |-> d.name, typ |-> d.typ, exp |-> exp,
                    val |-> VarValue(d.typ, exp)]>> \o rest

\* The map the entries fill: a later entry of the same name overwrites.
VarsMap(entries) ==
    [name \in {entries[k].name : k \in DOMAIN entries} |->
        LET ks == {k \in DOMAIN entries : entries[k].name = name}
        IN entries[CHOOSE k \in ks : \A j \in ks : j <= k].val]

\* Router.vars as it would be without the hasVars check.
RouterVarsAnyPath(fils, urlPath) ==
    IF fils.Path = None
    THEN [panic |-> FALSE, set |-> FALSE, entries |-> <<>>]
    ELSE LET fsplit == Tail(Split(Get(fils.Path).Path, "/"))
             rsplit == Tail(Split(urlPath, "/"))
         IN IF Len(rsplit) < Len(fsplit)
            THEN [panic |-> TRUE, set |-> FALSE, entries |-> <<>>]
            ELSE [panic |-> FALSE, set |-> TRUE,
                  entries |-> VarEntries(fsplit, rsplit)]

\* Router.vars: [panic, set, entries].  set tells whether the request's
\* context gets a new value under varsKey; panic, whether indexing the
\* request path's segments ran out of range.
RouterVars(fils, urlPath) ==
    IF fils.Path = None \/ ~Get(fils.Path).hasVars
    THEN [panic |-> FALSE, set |-> FALSE, entries |-> <<>>]
    ELSE LET fsplit == Tail(Split(Get(fils.Path).Path, "/"))
             rsplit == Tail(Split(urlPath, "/"))
         IN IF Len(rsplit) < Len(fsplit)
            THEN [panic |-> TRUE, set |-> FALSE, entries |-> <<>>]
            ELSE [panic |-> FALSE, set |-> TRUE,
                  entries |-> VarEntries(fsplit, rsplit)]

\* Vars: the map under varsKey and whether there is one.
Vars(ctx) == [ok |-> ctx # None, varsmap |-> IF ctx # None THEN Get(ctx) ELSE <<>>]

\* The terminal choice as it would be if the fail handler came first.
TerminalFailFirst(rtr) == [ev |-> "fail", h |-> routers[rtr].fail]

\* The handler a node answers with when no route matched: its handler if
\* set, else its fail handler.
Terminal(rtr) ==
    IF routers[rtr].handler # Nil
    THEN [ev |-> "handler", h |-> routers[rtr].handler]
    ELSE [ev |-> "fail", h |-> routers[rtr].fail]

\* The parent of a node (0 for a root).
ParentOf(rtr) ==
    IF \E n \in Nodes : \E k \in DOMAIN routers[n].routes :
           routers[n].routes[k] = rtr
    THEN CHOOSE n \in Nodes : \E k \in DOMAIN routers[n].routes :
             routers[n].routes[k] = rtr
    ELSE 0

\* The routes registered after rtr on rtr's parent.
LaterSiblings(rtr) ==
    IF ParentOf(rtr) = 0 THEN {}
    ELSE LET routes == routers[ParentOf(rtr)].routes
             at == CHOOSE k \in DOMAIN routes : routes[k] = rtr
         IN {routes[k] : k \in {j \in DOMAIN routes : j > at}}

\* The answering node as it would be if a node without a matching route
\* handed the request on to a later sibling that accepts it.
AnsweringBacktrack(rtr) ==
    LET later == {n \in LaterSiblings(rtr) :
                      FiltersMatch(routers[n].filters, req)}
    IN IF later = {} THEN rtr ELSE CHOOSE n \in later : TRUE

\* The node whose handler or fail handler answers when rtr found no route.
Answering(rtr) == rtr

\* One entry of the dispatch log: what ran, at which node, and the request
\* path and context it was given.
Event(ev, node, h, sub, path, ctx) ==
    [ev |-> ev, node |-> node, h |-> h, sub |-> sub, path |-> path,
     ok |-> Vars(ctx).ok, varsmap |-> Vars(ctx).varsmap]

\* The host calls ServeHTTP of a node with a request.
Serve(rtr, r) ==
    /\ Idle
    /\ req' = r
    /\ ctxVars' = None
    /\ cur' = rtr
    /\ pc' = "strip"
    /\ mwIdx' = 0
    /\ log' = <<Event("enter", rtr, Nil, 0, r.Path, None)>>
    /\ UNCHANGED <<treeVars, bench>>

\* The first step of ServeHTTP as it would be if the node kept the request's
\* state: the prefix, once cut, is cut from the node too.
PrefixStripOnNode ==
    /\ pc = "strip"
    /\ req' = [req EXCEPT !.Path = StripPrefix(routers[cur].filters, @)]
    /\ routers' = [routers EXCEPT ![cur].filters.PathPrefix = None]
    /\ pc' = "vars"
    /\ UNCHANGED <<pathCalls, calls, ctxVars, cur, mwIdx, log, bench>>

\* ServeHTTP: cut the path prefix from the request URL path.
PrefixStrip ==
    /\ pc = "strip"
    /\ req' = [req EXCEPT !.Path = StripPrefix(routers[cur].filters, @)]
    /\ pc' = "vars"
    /\ UNCHANGED <<treeVars, ctxVars, cur, mwIdx, log, bench>>

\* The second step of ServeHTTP as it would be if Router.vars added its
\* variables to those the request's context already holds.
VariableExtractionMerging ==
    /\ pc = "vars"
    /\ LET v == RouterVars(routers[cur].filters, req.Path) IN
       /\ pc' = IF v.panic THEN "panic" ELSE "mw"
       /\ ctxVars' = IF ~v.set THEN ctxVars
                     ELSE IF ctxVars = None THEN Some(VarsMap(v.entries))
                     ELSE Some(VarsMap(v.entries) @@ Get(ctxVars))
    /\ UNCHANGED <<treeVars, req, cur, mwIdx, log, bench>>

\* ServeHTTP: r = rtr.vars(r).
VariableExtraction ==
    /\ pc = "vars"
    /\ LET v == RouterVars(routers[cur].filters, req.Path) IN
       /\ pc' = IF v.panic THEN "panic" ELSE "mw"
       /\ ctxVars' = IF v.set THEN Some(VarsMap(v.entries)) ELSE ctxVars
    /\ UNCHANGED <<treeVars, req, cur, mwIdx, log, bench>>

\* The middleware loop as it would be if it ran from the last handler to the
\* first.
MiddlewareReversed ==
    /\ pc = "mw"
    /\ mwIdx < Len(routers[cur].middleware)
    /\ mwIdx' = mwIdx + 1
    /\ log' = Append(log,
                 Event("mw", cur,
                       routers[cur].middleware[
                           Len(routers[cur].middleware) - mwIdx],
                       0, req.Path, ctxVars))
    /\ UNCHANGED <<treeVars, req, ctxVars, cur, pc, bench>>

\* The middleware loop as it would be if it ran before the variables are
\* parsed.
MiddlewareBeforeVars ==
    /\ pc = "vars"
    /\ mwIdx < Len(routers[cur].middleware)
    /\ mwIdx' = mwIdx + 1
    /\ log' = Append(log, Event("mw", cur, routers[cur].middleware[mwIdx + 1],
                                0, req.Path, ctxVars))
    /\ UNCHANGED <<treeVars, req, ctxVars, cur, pc, bench>>

\* ServeHTTP: the next middleware handler runs.
Middleware ==
    /\ pc = "mw"
    /\ mwIdx < Len(routers[cur].middleware)
    /\ mwIdx' = mwIdx + 1
    /\ log' = Append(log, Event("mw", cur, routers[cur].middleware[mwIdx + 1],
                                0, req.Path, ctxVars))
    /\ UNCHANGED <<treeVars, req, ctxVars, cur, pc, bench>>

\* The end of ServeHTTP as it would be if a node whose middleware ran
\* returned right after it.
ChildSearchUnlessMiddleware ==
    /\ pc = "mw"
    /\ mwIdx = Len(routers[cur].middleware)
    /\ IF mwIdx > 0
       THEN /\ pc' = "done"
            /\ UNCHANGED <<cur, mwIdx, log>>
       ELSE LET sub == Match(cur, req) IN
            IF sub # 0
            THEN /\ cur' = sub
                 /\ pc' = "strip"
                 /\ mwIdx' = 0
                 /\ log' = log \o
                        <<Event("delegate", cur, Nil, sub, req.Path, ctxVars),
                          Event("enter", sub, Nil, 0, req.Path, ctxVars)>>
            ELSE /\ pc' = "done"
                 /\ log' = Append(log,
                        Event(Terminal(cur).ev, cur, Terminal(cur).h, 0,
                              req.Path, ctxVars))
                 /\ UNCHANGED <<cur, mwIdx>>
    /\ UNCHANGED <<treeVars, req, ctxVars, bench>>

\* ServeHTTP: the first matching route's ServeHTTP takes over; without one,
\* the handler, or else the fail handler, answers.
ChildSearch ==
    /\ pc = "mw"
    /\ mwIdx = Len(routers[cur].middleware)
    /\ LET sub == Match(cur, req) IN
       IF sub # 0
       THEN /\ cur' = sub
            /\ pc' = "strip"
            /\ mwIdx' = 0
            /\ log' = log \o
                   <<Event("delegate", cur, Nil, sub, req.Path, ctxVars),
                     Event("enter", sub, Nil, 0, req.Path, ctxVars)>>
       ELSE /\ pc' = "done"
            /\ log' = Append(log,
                   Event(Terminal(Answering(cur)).ev, Answering(cur),
                         Terminal(Answering(cur)).h, 0, req.Path, ctxVars))
            /\ UNCHANGED <<cur, mwIdx>>
    /\ UNCHANGED <<treeVars, req, ctxVars, bench>>

\* ServeHTTP returned, or panicked: the request is over.
Return ==
    /\ pc \in {"done", "panic"}
    /\ req' = NoRequest
    /\ ctxVars' = None
    /\ cur' = 0
    /\ pc' = "idle"
    /\ mwIdx' = 0
    /\ log' = <<>>
    /\ UNCHANGED <<treeVars, bench>>

\* ------------------------------------------------------ specification
Init ==
    /\ routers = <<New>>
    /\ pathCalls = <<<<>>>>
    /\ calls = 0
    /\ req = NoRequest
    /\ ctxVars = None
    /\ cur = 0
    /\ pc = "idle"
    /\ mwIdx = 0
    /\ log = <<>>
    /\ bench = NoBench

Next ==
    \/ \E rtr \in Nodes : Subrouter(rtr)
    \/ \E rtr \in Nodes, methods \in MethodArgs : Methods(rtr, methods)
    \/ \E rtr \in Nodes, path \in Templates : Path(rtr, path)
    \/ \E rtr \in Nodes, prefix \in Prefixes : PathPrefix(rtr, prefix)
    \/ \E rtr \in Nodes, schemes \in SchemeArgs : Schemes(rtr, schemes)
    \/ \E rtr \in Nodes, h \in Handlers : Handler(rtr, h)
    \/ \E rtr \in Nodes, h \in FailHandlers : Fail(rtr, h)
    \/ \E rtr \in Nodes, h \in Middlewares : Use(rtr, h)
    \/ \E rtr \in Nodes, r \in Requests : Serve(rtr, r)
    \/ PrefixStrip
    \/ VariableExtraction
    \/ Middleware
    \/ ChildSearch
    \/ Return

Spec == Init /\ [][Next]_vars

\* ----------------------------------------------------- the filter bench
\* A second specification for the path filter alone: Init draws a template
\* and a request path, BenchPath builds the filter as Router.Path does, and
\* BenchServe matches the path and, if it is accepted, extracts the
\* variables as the ServeHTTP of the accepting node does.
MaxTplLen == 3
BenchChars == {"/", "0", "7", "a", "-"}
\* Request paths of one number each: the greatest int, the number after it,
\* its negative, the number before that, the greatest uint and the number
\* after it.
BenchNumberPaths ==
    {<<"/">> \o MaxInt64Digits,
     <<"/">> \o MinInt64Digits,
     <<"/", "-">> \o MinInt64Digits,
     <<"/", "-", "9", "2", "2", "3", "3", "7", "2", "0", "3", "6", "8", "5",
       "4", "7", "7", "5", "8", "0", "9">>,
     <<"/">> \o MaxUint64Digits,
     <<"/", "1", "8", "4", "4", "6", "7", "4", "4", "0", "7", "3", "7", "0",
       "9", "5", "5", "1", "6", "1", "6">>}
BenchPaths ==
    {<<"/">> \o t : t \in UNION {[1..n -> BenchChars] : n \in 0..(MaxPathLen - 1)}}
        \cup BenchNumberPaths
LitChars == {"/", "a", "0"}
LiteralTemplates == UNION {[1..n -> LitChars] : n \in 1..MaxTplLen}
TplNat == <<"/", "{", "n", ":", "n", "a", "t", "}">>
TplInt == <<"/", "{", "i", ":", "i", "n", "t", "}">>
TplStr == <<"/", "{", "s", ":", "s", "t", "r", "}">>
TplANat == <<"/", "a", "/", "{", "n", ":", "n", "a", "t", "}">>
TplRest == <<"/", "a", "/", "{", "f", ":", ".", "*", "}">>
TplPub == <<"/", "a", "/", ".", "*">>
TplAll == <<"/", "{", "f", ":", ".", "*", "}">>
TplOpen == <<"/", "{", "n", ":", "n", "a", "t">>
TplBrace == <<"/", "{", "f", ":", "\\d", "{", "2", "}", "a", "}">>
TplColon == <<"/", "{", "f", ":", "a", ":", "0", "}">>
TplAlt == <<"/", "a", "/", "{", "f", ":", "a", "|", "0", "}">>
BenchTemplates ==
    LiteralTemplates \cup
        {TplNat, TplInt, TplStr, TplANat, TplRest, TplPub, TplAll, TplBad,
         TplOpen, TplBrace, TplColon, TplAlt}

BenchPath ==
    /\ bench.stage = "new"
    /\ LET new == NewPathFilter(bench.T) IN
       bench' = IF new.panic THEN [bench EXCEPT !.stage = "panic"]
                ELSE [bench EXCEPT !.stage = "built", !.fil = Some(new.fil)]
    /\ UNCHANGED <<treeVars, reqVars>>

BenchServe ==
    /\ bench.stage = "built"
    /\ LET fils == [NewFilters EXCEPT !.Path = bench.fil]
           accepted == PathFilterMatch(Get(bench.fil), bench.P)
           v == RouterVars(fils, bench.P)
       IN bench' = IF accepted
                   THEN [bench EXCEPT !.stage = "served", !.accepted = TRUE,
                                      !.panic = v.panic,
                                      !.entries = v.entries]
                   ELSE [bench EXCEPT !.stage = "served"]
    /\ UNCHANGED <<treeVars, reqVars>>

InitBench ==
    /\ routers = <<New>>
    /\ pathCalls = <<<<>>>>
    /\ calls = 0
    /\ req = NoRequest
    /\ ctxVars = None
    /\ cur = 0
    /\ pc = "idle"
    /\ mwIdx = 0
    /\ log = <<>>
    /\ bench \in {[NoBench EXCEPT !.stage = "new", !.T = t, !.P = p] :
                      t \in BenchTemplates, p \in BenchPaths}

NextBench == BenchPath \/ BenchServe

SpecBench == InitBench /\ [][NextBench]_vars

\* ---------------------------------------------------- the filter desk
\* A third specification for the Schemes and Methods filters alone: Init
\* draws the constructor's arguments and a request; the filter is built by
\* its constructor or by the Router method on a fresh root, and then asked
\* whether it accepts the request.
MaxArgs == 2
SchemeNames == {"http", "HTTP", "https", "HTTPS"}
MethodNames == {"GET", "get", "POST"}
DeskRequests ==
    [Method : MethodNames, Path : {<<"/">>}, Scheme : {"", "http", "https"},
     TLS : BOOLEAN]
DeskArgs(names) == UNION {[1..n -> names] : n \in 0..MaxArgs}

\* NewSchemesFilter
NewSchemesFilter(schemes) == newSet(schemes)

\* NewMethodsFilter
NewMethodsFilter(methods) == newSet(methods)

Desk(kind, args) ==
    [stage |-> "new", kind |-> kind, args |-> args, fil |-> None,
     accepted |-> FALSE]

\* The constructor is called directly.
DeskNewSchemesFilter ==
    /\ bench.stage = "new"
    /\ bench.kind = "NewSchemesFilter"
    /\ bench' = [bench EXCEPT !.stage = "built",
                              !.fil = Some(NewSchemesFilter(bench.args))]
    /\ UNCHANGED <<treeVars, reqVars>>

DeskNewMethodsFilter ==
    /\ bench.stage = "new"
    /\ bench.kind = "NewMethodsFilter"
    /\ bench' = [bench EXCEPT !.stage = "built",
                              !.fil = Some(NewMethodsFilter(bench.args))]
    /\ UNCHANGED <<treeVars, reqVars>>

\* Router.Schemes on the root.
DeskSchemes ==
    /\ bench.stage = "new"
    /\ bench.kind = "Schemes"
    /\ routers[1].filters.Schemes = None
    /\ Schemes(1, bench.args)

\* Router.Methods on the root.
DeskMethods ==
    /\ bench.stage = "new"
    /\ bench.kind = "Methods"
    /\ routers[1].filters.Methods = None
    /\ Methods(1, bench.args)

\* SchemesFilter.Match on the filter that was built.
DeskSchemesMatch ==
    /\ \/ bench.stage = "built" /\ bench.kind = "NewSchemesFilter"
       \/ bench.stage = "new" /\ routers[1].filters.Schemes # None
    /\ LET fil == IF bench.kind = "Schemes" THEN routers[1].filters.Schemes
                  ELSE bench.fil
       IN bench' = [bench EXCEPT !.stage = "asked", !.fil = fil,
                        !.accepted = SchemesFilterMatch(Get(fil), req)]
    /\ UNCHANGED <<treeVars, reqVars>>

\* MethodsFilter.Match on the filter that was built.
DeskMethodsMatch ==
    /\ \/ bench.stage = "built" /\ bench.kind = "NewMethodsFilter"
       \/ bench.stage = "new" /\ routers[1].filters.Methods # None
    /\ LET fil == IF bench.kind = "Methods" THEN routers[1].filters.Methods
                  ELSE bench.fil
       IN bench' = [bench EXCEPT !.stage = "asked", !.fil = fil,
                        !.accepted = MethodsFilterMatch(Get(fil), req)]
    /\ UNCHANGED <<treeVars, reqVars>>

InitDesk ==
    /\ routers = <<New>>
    /\ pathCalls = <<<<>>>>
    /\ calls = 0
    /\ req \in DeskRequests
    /\ ctxVars = None
    /\ cur = 0
    /\ pc = "idle"
    /\ mwIdx = 0
    /\ log = <<>>
    /\ bench \in
           {Desk(k, a) : k \in {"NewSchemesFilter", "Schemes"},
                         a \in DeskArgs(SchemeNames)}
           \cup {Desk(k, a) : k \in {"NewMethodsFilter", "Methods"},
                              a \in DeskArgs(MethodNames)}

NextDesk ==
    \/ DeskNewSchemesFilter
    \/ DeskNewMethodsFilter
    \/ DeskSchemes
    \/ DeskMethods
    \/ DeskSchemesMatch
    \/ DeskMethodsMatch

SpecDesk == InitDesk /\ [][NextDesk]_vars

\* ------------------------------------------------ two requests at once
\* A fourth specification for two dispatches through one tree: the server
\* runs each request's ServeHTTP in a goroutine of its own, and the
\* scheduler may switch between the two before any step.  The dispatch that
\* is running is held in the request variables, the other one is parked.
PairPaths ==
    {<<"/">>,
     <<"/", "s", "/", "4", "2">>,
     <<"/", "a", "/", "s", "/", "4", "2">>,
     <<"/", "a", "/", "a", "/", "s", "/", "7">>}
PairRequests ==
    [Method : {"GET"}, Path : PairPaths, Scheme : {""}, TLS : {FALSE}]

\* root: PathPrefix /a, middleware m1, routes 2 and 3;
\* 2: Path /s/{i:int}, middleware m2, handler h1;  3: fail handler f1.
PairTree ==
    <<[New EXCEPT !.filters = PathPrefixFilters(NewFilters, PrefixApi),
                  !.routes = <<2, 3>>,
                  !.middleware = <<"m1">>],
      [New EXCEPT !.filters =
                      PathFilters(NewFilters, NewPathFilter(TplSong).fil),
                  !.middleware = <<"m2">>,
                  !.handler = "h1"],
      [New EXCEPT !.fail = "f1"]>>

IdleSlot ==
    [req |-> NoRequest, ctxVars |-> None, cur |-> 0, pc |-> "idle",
     mwIdx |-> 0, log |-> <<>>]

\* The host calls ServeHTTP for the request of the running goroutine.
PairServe ==
    /\ bench.stage = "pair"
    /\ Serve(bench.plan[bench.id].rtr, bench.plan[bench.id].r)

\* The scheduler switches to the other goroutine.
Switch ==
    /\ bench.stage = "pair"
    /\ bench' = [bench EXCEPT
                     !.id = 3 - @,
                     !.parked = [req |-> req, ctxVars |-> ctxVars,
                                 cur |-> cur, pc |-> pc, mwIdx |-> mwIdx,
                                 log |-> log]]
    /\ req' = bench.parked.req
    /\ ctxVars' = bench.parked.ctxVars
    /\ cur' = bench.parked.cur
    /\ pc' = bench.parked.pc
    /\ mwIdx' = bench.parked.mwIdx
    /\ log' = bench.parked.log
    /\ UNCHANGED treeVars

InitPair ==
    /\ routers = PairTree
    /\ pathCalls = <<<<"PathPrefix">>, <<"Path">>, <<>>>>
    /\ calls = MaxCalls
    /\ req = NoRequest
    /\ ctxVars = None
    /\ cur = 0
    /\ pc = "idle"
    /\ mwIdx = 0
    /\ log = <<>>
    /\ bench \in
           {[stage |-> "pair", id |-> 1, parked |-> IdleSlot,
             plan |-> <<[rtr |-> n1, r |-> r1], [rtr |-> n2, r |-> r2]>>] :
                n1 \in DOMAIN PairTree, n2 \in DOMAIN PairTree,
                r1 \in PairRequests, r2 \in PairRequests}

NextPair ==
    \/ PairServe
    \/ Switch
    \/ PrefixStrip
    \/ VariableExtraction
    \/ Middleware
    \/ ChildSearch

SpecPair == InitPair /\ [][NextPair]_vars

\* ------------------------------------------------ nested path filters
\* A fifth specification for dispatches through a chain of nodes, each the
\* only route of the one before it, where every node may have a Path filter
\* of its own: Init draws the templates, and a request may enter the chain
\* at any node.  Every node has one middleware handler and the last node a
\* handler, so that what Vars returns is seen at every node.
\* The number of nodes of the chain.
NestDepth == 3
TplKey == <<"/", "{", "k", ":", "s", "t", "r", "}", "/",
            "{", "i", ":", "n", "a", "t", "}">>
TplS == <<"/", "s">>
NestTemplates == {None, Some(TplSong), Some(TplKey), Some(TplS)}
NestPaths ==
    {<<"/">>,
     <<"/", "s", "/", "4", "2">>,
     <<"/", "a", "/", "7">>}
NestRequests ==
    [Method : {"GET"}, Path : NestPaths, Scheme : {""}, TLS : {FALSE}]

\* New, Subrouter, Path, Use and Handler build the chain.
NestTree(ts) ==
    [n \in 1..NestDepth |->
        [New EXCEPT
             !.filters = IF ts[n] = None THEN NewFilters
                         ELSE PathFilters(NewFilters,
                                          NewPathFilter(Get(ts[n])).fil),
             !.routes = IF n < NestDepth THEN <<n + 1>> ELSE <<>>,
             !.middleware = <<"m1">>,
             !.handler = IF n = NestDepth THEN "h1" ELSE Nil]]

\* The host calls ServeHTTP of a node of the chain.
NestServe(rtr, r) ==
    /\ bench.stage = "nest"
    /\ Serve(rtr, r)

InitNest ==
    /\ \E ts \in [1..NestDepth -> NestTemplates] :
           /\ routers = NestTree(ts)
           /\ pathCalls = [n \in 1..NestDepth |->
                              IF ts[n] = None THEN <<>> ELSE <<"Path">>]
    /\ calls = MaxCalls
    /\ req = NoRequest
    /\ ctxVars = None
    /\ cur = 0
    /\ pc = "idle"
    /\ mwIdx = 0
    /\ log = <<>>
    /\ bench = [stage |-> "nest"]

NextNest ==
    \/ \E rtr \in Nodes, r \in NestRequests : NestServe(rtr, r)
    \/ PrefixStrip
    \/ VariableExtraction
    \/ Middleware
    \/ ChildSearch
    \/ Return

SpecNest == InitNest /\ [][NextNest]_vars

\* ================================================================ claims
\* The segments of a path or of a template, as Router.vars splits them.
Segments(path) == Tail(Split(path, "/"))

IsTerminal(e) == e.ev \in {"handler", "fail"}

\* Whether node n's filter set accepts the request as it was at event e.
Accepts(n, e) == FiltersMatch(routers[n].filters, [req EXCEPT !.Path = e.path])

\* The node entered last at or before log position k.
LastEntered(k) ==
    log[CHOOSE j \in 1..k :
            /\ log[j].ev = "enter"
            /\ \A i \in (j + 1)..k : log[i].ev # "enter"].node

\* C1: at every node the request is delegated to the first child, in
\* registration order, whose filter set accepts it: the chosen child accepts
\* the request and no child registered before it does.
C1_FirstRegisteredChildWins ==
    \A k \in DOMAIN log :
        log[k].ev = "delegate" =>
            LET routes == routers[log[k].node].routes IN
            \E i \in DOMAIN routes :
                /\ routes[i] = log[k].sub
                /\ Accepts(routes[i], log[k])
                /\ \A j \in 1..(i - 1) : ~Accepts(routes[j], log[k])

\* A delegation to a child without any filter while a child registered
\* later, with a Path filter, accepts the request too.
C1_Witness ==
    \E k \in DOMAIN log :
        /\ log[k].ev = "delegate"
        /\ routers[log[k].sub].filters = NewFilters
        /\ \E s \in LaterSiblings(log[k].sub) :
               /\ routers[s].filters.Path # None
               /\ Accepts(s, log[k])

\* C2: dispatch never backtracks: every node entered after the first is a
\* child of the node entered just before it, reached by that node's
\* delegation; everything that runs, runs at the node entered last; and the
\* handler or fail handler that answers is the last thing the dispatch does.
C2_NoBacktracking ==
    \A k \in DOMAIN log :
        /\ (log[k].ev = "enter" /\ k > 1) =>
               /\ log[k - 1].ev = "delegate"
               /\ log[k - 1].sub = log[k].node
               /\ ParentOf(log[k].node) = log[k - 1].node
        /\ log[k].ev # "enter" => log[k].node = LastEntered(k)
        /\ IsTerminal(log[k]) => k = Len(log)

\* A chosen child that has routes of its own, none of which accepts, has
\* answered, although a sibling registered after it accepts the request.
C2_Witness ==
    /\ pc = "done"
    /\ LET e == log[Len(log)] IN
       /\ routers[e.node].routes # <<>>
       /\ \E k \in DOMAIN log :
              /\ log[k].ev = "delegate"
              /\ log[k].sub = e.node
              /\ \E s \in LaterSiblings(e.node) : Accepts(s, log[k])

\* C3: a node answers only when none of its children accepts the request,
\* with its handler if one is set and with its fail handler otherwise; a
\* node that delegated to a child runs neither.
C3_HandlerElseFallback ==
    \A k \in DOMAIN log :
        /\ IsTerminal(log[k]) =>
               LET rtr == routers[log[k].node] IN
               /\ \A i \in DOMAIN rtr.routes : ~Accepts(rtr.routes[i], log[k])
               /\ IF rtr.handler # Nil
                  THEN log[k].ev = "handler" /\ log[k].h = rtr.handler
                  ELSE log[k].ev = "fail" /\ log[k].h = rtr.fail
        /\ log[k].ev = "delegate" =>
               \A j \in DOMAIN log :
                   IsTerminal(log[j]) => log[j].node # log[k].node

\* A node with a handler, a custom fail handler and a child that does not
\* accept the request has answered with its handler.
C3_Witness ==
    /\ pc = "done"
    /\ LET e == log[Len(log)] IN
       /\ e.ev = "handler"
       /\ routers[e.node].routes # <<>>
       /\ routers[e.node].fail # DefaultFailHandler

\* C4: a dispatch that is over has invoked exactly one handler or fail
\* handler.
C4_ExactlyOneTerminal ==
    pc \in {"done", "panic"} =>
        Cardinality({k \in DOMAIN log : IsTerminal(log[k])}) = 1

\* C5: a node with PathPrefix p, entered with a path that begins with p,
\* gives its variable extraction, its middleware, its child search and the
\* child it delegates to the path without p; and the node with PathPrefix /a
\* whose first child has only the Path filter /s/{i:int} passes /a/s/42 on
\* to that child, which runs with the path /s/42 and i = 42.
C5_PrefixStrippedBeforeChildren ==
    /\ \A k \in DOMAIN log :
           LET fils == routers[log[k].node].filters
               p == Get(fils.PathPrefix)
               rest == Slice(log[k].path, Len(p) + 1, Len(log[k].path))
           IN
           (/\ log[k].ev = "enter"
            /\ fils.PathPrefix # None
            /\ HasPrefix(log[k].path, p)) =>
               /\ \A j \in (k + 1)..Len(log) :
                      (\A i \in (k + 1)..(j - 1) : log[i].ev # "enter") =>
                          log[j].path = rest
               /\ (pc \in {"vars", "mw", "done", "panic"}
                   /\ \A i \in (k + 1)..Len(log) : log[i].ev # "enter") =>
                      req.Path = rest
    /\ (/\ pc = "done"
        /\ log[1].path = <<"/", "a", "/", "s", "/", "4", "2">>
        /\ routers[log[1].node].filters.PathPrefix = Some(PrefixApi)
        /\ routers[log[1].node].routes # <<>>
        /\ LET sub == routers[routers[log[1].node].routes[1]] IN
           /\ sub.filters.Path # None
           /\ Get(sub.filters.Path).Path = TplSong
           /\ sub.filters.Methods = None
           /\ sub.filters.Schemes = None) =>
           LET child == routers[log[1].node].routes[1] IN
           /\ \E k \in DOMAIN log : log[k].ev = "enter" /\ log[k].node = child
           /\ \A k \in DOMAIN log :
                  (log[k].node = child /\ log[k].ev # "enter") =>
                      /\ log[k].path = <<"/", "s", "/", "4", "2">>
                      /\ log[k].ok
                      /\ log[k].varsmap =
                             (<<"i">> :> IntValue(FALSE, <<"4", "2">>))

\* The child with the Path filter /s/{i:int} of a node with PathPrefix /a
\* has answered the request /a/s/42 with its handler.
C5_Witness ==
    /\ pc = "done"
    /\ log[1].path = <<"/", "a", "/", "s", "/", "4", "2">>
    /\ routers[log[1].node].filters.PathPrefix = Some(PrefixApi)
    /\ LET e == log[Len(log)] IN
       /\ e.ev = "handler"
       /\ ParentOf(e.node) = log[1].node
       /\ routers[e.node].filters.Path # None
       /\ Get(routers[e.node].filters.Path).Path = TplSong
       /\ e.path = <<"/", "s", "/", "4", "2">>

\* Whether a template holds a placeholder segment.
HasPlaceholder(template) ==
    \E k \in DOMAIN Segments(template) : isVar(Segments(template)[k])

\* C6: the Path filter of a template without placeholders accepts a request
\* path if and only if the path equals the template.
C6_LiteralTemplateMatchesExactly ==
    (bench.stage = "served" /\ ~HasPlaceholder(Get(bench.fil).Path)) =>
        (bench.accepted <=> bench.P = Get(bench.fil).Path)

\* The values the type grammars admit.
InNatGrammar(v) ==
    \/ v = <<"0">>
    \/ /\ v # <<>>
       /\ v[1] \in NonZeroDigit
       /\ \A k \in DOMAIN v : v[k] \in Digit
InIntGrammar(v) ==
    InNatGrammar(IF v # <<>> /\ Head(v) = "-" THEN Tail(v) ELSE v)
InStrGrammar(v) == v # <<>> /\ \A k \in DOMAIN v : v[k] \in Letter \cup {"_"}
InGrammar(typ, v) ==
    CASE typ = TypInt -> InIntGrammar(v)
      [] typ = TypNat -> InNatGrammar(v)
      [] typ = TypStr -> InStrGrammar(v)
      [] OTHER -> TRUE

\* Whether a template segment is exactly {name:typ}.
IsPlaceholderOf(seg, typ) ==
    /\ isVar(seg)
    /\ Head(seg) = "{"
    /\ seg[Len(seg)] = "}"
    /\ varData(seg).typ = typ

\* C7: a request path with a segment outside the grammar of the int, nat or
\* str placeholder at its position is rejected.
C7_OutOfGrammarRejected ==
    bench.stage = "served" =>
        LET fsplit == Segments(Get(bench.fil).Path)
            rsplit == Segments(bench.P)
        IN (/\ Len(fsplit) = Len(rsplit)
            /\ \E k \in DOMAIN fsplit : \E typ \in {TypInt, TypNat, TypStr} :
                   /\ IsPlaceholderOf(fsplit[k], typ)
                   /\ ~InGrammar(typ, rsplit[k])) => ~bench.accepted

\* The template's segments with each placeholder replaced by the text its
\* variable captured.
RECURSIVE Resubstitute(_, _)
Resubstitute(fsplit, entries) ==
    IF fsplit = <<>> THEN <<>>
    ELSE IF isVar(Head(fsplit))
    THEN <<Head(entries).exp>> \o Resubstitute(Tail(fsplit), Tail(entries))
    ELSE <<Head(fsplit)>> \o Resubstitute(Tail(fsplit), entries)

\* C8: for a template with placeholders and a request path its filter
\* accepts, the variables are extracted and putting their captured text back
\* into the placeholders gives the request path.
C8_RoundTrip ==
    (/\ bench.stage = "served"
     /\ bench.accepted
     /\ HasPlaceholder(Get(bench.fil).Path)) =>
        /\ ~bench.panic
        /\ JoinSlash(Resubstitute(Segments(Get(bench.fil).Path),
                                  bench.entries)) = bench.P

\* The Path and PathPrefix calls on node n that did not panic, in order.
PathSets(n) == SelectSeq(pathCalls[n], LAMBDA c : c # "PathPanic")

\* C9: no node's filter set holds both a Path and a PathPrefix filter, and
\* of the two the one set last is the one that is set.
C9_PathAndPrefixExclusive ==
    \A n \in Nodes :
        LET fils == routers[n].filters
            sets == PathSets(n)
        IN /\ ~(fils.Path # None /\ fils.PathPrefix # None)
           /\ sets = <<>> => fils.Path = None /\ fils.PathPrefix = None
           /\ (sets # <<>> /\ sets[Len(sets)] = "Path") =>
                  fils.Path # None /\ fils.PathPrefix = None
           /\ (sets # <<>> /\ sets[Len(sets)] = "PathPrefix") =>
                  fils.PathPrefix # None /\ fils.Path = None

\* A node on which PathPrefix was set and then Path: only Path is active.
C9_Witness ==
    \E n \in Nodes :
        /\ pathCalls[n] = <<"PathPrefix", "Path">>
        /\ routers[n].filters.Path # None
        /\ routers[n].filters.PathPrefix = None

\* C10: Vars, called by a middleware or by the answering handler, reports a
\* mapping if and only if a node entered so far has a Path filter whose
\* template holds a placeholder.
C10_VarsPresentIffPlaceholderVisited ==
    \A k \in DOMAIN log :
        log[k].ev \in {"mw", "handler", "fail"} =>
            (log[k].ok <=>
                \E j \in 1..k :
                    /\ log[j].ev = "enter"
                    /\ routers[log[j].node].filters.Path # None
                    /\ HasPlaceholder(
                           Get(routers[log[j].node].filters.Path).Path))

\* A handler that got the mapping from an ancestor's Path filter, behind a
\* node whose own Path filter has no placeholder and so added nothing.
C10_Witness ==
    /\ pc = "done"
    /\ LET e == log[Len(log)] IN
       /\ e.ok
       /\ e.varsmap # <<>>
       /\ routers[e.node].filters.Path # None
       /\ ~Get(routers[e.node].filters.Path).hasVars

\* The number a text of the int or nat grammar denotes.
NumberOf(typ, text) ==
    IF typ = TypNat THEN UintValue(text)
    ELSE IF Head(text) = "-" THEN IntValue(TRUE, Tail(text))
    ELSE IntValue(FALSE, text)

\* C11: for a request path the Path filter accepts, every placeholder of
\* the template gets one variable, in order, literal segments get none, and
\* the variable of an int, nat or str placeholder holds the value of a
\* text of that type's grammar: the number it denotes for int and nat, the
\* text itself for str.
C11_TypedExtraction ==
    (/\ bench.stage = "served"
     /\ bench.accepted
     /\ HasPlaceholder(Get(bench.fil).Path)) =>
        LET fsplit == Segments(Get(bench.fil).Path)
            places == SelectSeq(fsplit, isVar)
        IN /\ ~bench.panic
           /\ Len(bench.entries) = Len(places)
           /\ \A k \in DOMAIN bench.entries :
                  LET e == bench.entries[k] IN
                  /\ e.name = varData(places[k]).name
                  /\ e.typ \in {TypInt, TypNat} =>
                         /\ InGrammar(e.typ, e.exp)
                         /\ e.val = NumberOf(e.typ, e.exp)
                  /\ e.typ = TypStr =>
                         /\ InGrammar(e.typ, e.exp)
                         /\ e.val = StrValue(e.exp)

\* The regular-expression fragment that matches whatever is left.
TypRest == <<".", "*">>

\* C12: for a template of literal segments followed by one placeholder with
\* the fragment .*, and a request path that begins with the literal part,
\* the variable holds all that is left of the path after the literal part,
\* across any "/".
C12_RegexCapturesMatchedText ==
    (bench.stage = "served" /\ bench.accepted) =>
        LET fsplit == Segments(Get(bench.fil).Path)
            n == Len(fsplit)
            lit == JoinSlash(SubSeq(fsplit, 1, n - 1)) \o <<"/">>
        IN (/\ isVar(fsplit[n])
            /\ varData(fsplit[n]).typ = TypRest
            /\ \A k \in 1..(n - 1) : ~isVar(fsplit[k])
            /\ HasPrefix(bench.P, lit)) =>
               /\ Len(bench.entries) = 1
               /\ bench.entries[1].val =
                      StrValue(Slice(bench.P, Len(lit) + 1, Len(bench.P)))

\* The filter variants, those a filter set holds, and whether the one of
\* them that is held accepts a request.
Variants == {"Schemes", "Methods", "Path", "PathPrefix"}
Present(fils) == {v \in Variants : fils[v] # None}
VariantAccepts(v, fils, r) ==
    CASE v = "Schemes" -> SchemesFilterMatch(Get(fils.Schemes), r)
      [] v = "Methods" -> MethodsFilterMatch(Get(fils.Methods), r)
      [] v = "Path" -> PathFilterMatch(Get(fils.Path), r.Path)
      [] v = "PathPrefix" ->
            PathPrefixFilterMatch(Get(fils.PathPrefix), r.Path)

\* C13: the filter set of every node accepts the request being dispatched
\* if and only if each variant the set holds accepts it; a set that holds
\* none accepts it.
C13_AllPresentVariantsAccept ==
    pc # "idle" =>
        \A n \in Nodes :
            LET fils == routers[n].filters IN
            /\ FiltersMatch(fils, req) <=>
                   \A v \in Present(fils) : VariantAccepts(v, fils, req)
            /\ Present(fils) = {} => FiltersMatch(fils, req)

\* A node answered because its only child, whose filter set holds Schemes
\* and Methods, was not chosen: its Schemes filter accepts the request but
\* its Methods filter does not.
C13_Witness ==
    /\ pc = "done"
    /\ LET e == log[Len(log)] IN
       /\ Len(routers[e.node].routes) = 1
       /\ LET fils == routers[routers[e.node].routes[1]].filters IN
          /\ Present(fils) = {"Schemes", "Methods"}
          /\ VariantAccepts("Schemes", fils, req)
          /\ ~VariantAccepts("Methods", fils, req)

\* The scheme a request counts as having: the one of its URL if there is
\* one, else http without TLS and https with it.
EffectiveScheme(r) ==
    IF r.Scheme # "" THEN r.Scheme ELSE IF r.TLS THEN "https" ELSE "http"

\* Equality of two scheme names without regard to case.
EqualFold(a, b) == ToLower(a) = ToLower(b)

\* C14: a Schemes filter accepts a request if and only if the request's
\* effective scheme is, without regard to case, one of the schemes the
\* filter was configured with.
C14_SchemeMembershipIgnoresCase ==
    (bench.stage = "asked" /\ bench.kind \in {"NewSchemesFilter", "Schemes"}) =>
        (bench.accepted <=>
            \E k \in DOMAIN bench.args :
                EqualFold(bench.args[k], EffectiveScheme(req)))

\* C15: a Methods filter accepts a request if and only if the request's
\* method equals, character for character, one of the methods the filter
\* was constructed with.
C15_MethodMembershipExact ==
    (bench.stage = "asked" /\ bench.kind \in {"NewMethodsFilter", "Methods"}) =>
        /\ bench.accepted <=>
               \E k \in DOMAIN bench.args : bench.args[k] = req.Method
        /\ \A x \in MethodNames :
               Has(Get(bench.fil), x) <=>
                   \E k \in DOMAIN bench.args : bench.args[k] = x

\* A filter constructed with GET and POST has rejected the method get.
C15_Witness ==
    /\ bench.stage = "asked"
    /\ bench.kind = "Methods"
    /\ bench.args = <<"GET", "POST">>
    /\ req.Method = "get"
    /\ ~bench.accepted

\* The nodes entered so far, in order.
Entered ==
    LET es == SelectSeq(log, LAMBDA e : e.ev = "enter")
    IN [k \in DOMAIN es |-> es[k].node]

\* The middleware handlers that ran so far, each with its node, in order.
MiddlewareRun ==
    LET ms == SelectSeq(log, LAMBDA e : e.ev = "mw")
    IN [k \in DOMAIN ms |-> <<ms[k].node, ms[k].h>>]

\* The middleware of the nodes ns, node after node, each node's in
\* registration order.
RECURSIVE MiddlewareAlong(_)
MiddlewareAlong(ns) ==
    IF ns = <<>> THEN <<>>
    ELSE [i \in DOMAIN routers[Head(ns)].middleware |->
              <<Head(ns), routers[Head(ns)].middleware[i]>>]
         \o MiddlewareAlong(Tail(ns))

\* C16: when a handler or fail handler has answered, the nodes entered are
\* the path from the entry node down to the answering node, and what ran as
\* middleware is exactly the middleware of these nodes, each handler once,
\* node after node from the entry node down and in registration order
\* within a node; a node's middleware runs before the node delegates or
\* answers.
C16_MiddlewareAlongThePath ==
    /\ pc = "done" =>
           /\ Entered[Len(Entered)] = log[Len(log)].node
           /\ \A k \in 2..Len(Entered) : ParentOf(Entered[k]) = Entered[k - 1]
           /\ MiddlewareRun = MiddlewareAlong(Entered)
    /\ \A k \in DOMAIN log :
           log[k].ev = "mw" =>
               /\ log[k - 1].ev \in {"enter", "mw"}
               /\ log[k - 1].node = log[k].node

\* A node with the middleware m2, m1 delegated to a child with the
\* middleware m1, and the child's handler or fail handler has answered.
C16_Witness ==
    /\ pc = "done"
    /\ Len(Entered) = 2
    /\ routers[Entered[1]].middleware = <<"m2", "m1">>
    /\ routers[Entered[2]].middleware = <<"m1">>

\* C17: middleware does not end a dispatch.  Once a node's middleware is
\* due, the only steps are the next middleware handler of the node, in
\* turn, and, after the last of them, the child search, which delegates or
\* answers with the handler or the fail handler; every delegation and every
\* answer of a node comes right after the node was entered and all of its
\* middleware ran; and a dispatch that returned has ended with a handler or
\* a fail handler.
C17_MiddlewareNeverShortCircuits ==
    /\ [](/\ pc = "mw" => mwIdx <= Len(routers[cur].middleware)
          /\ \A k \in DOMAIN log :
                 log[k].ev \in {"delegate", "handler", "fail"} =>
                     LET n == log[k].node
                         mw == routers[n].middleware
                         m == Len(mw)
                     IN /\ k > m + 1
                        /\ log[k - m - 1].ev = "enter"
                        /\ log[k - m - 1].node = n
                        /\ \A i \in 1..m :
                               /\ log[k - m - 1 + i].ev = "mw"
                               /\ log[k - m - 1 + i].node = n
                               /\ log[k - m - 1 + i].h = mw[i]
          /\ pc = "done" =>
                 /\ IsTerminal(log[Len(log)])
                 /\ log[Len(log)].node = cur)
    /\ [][pc = "mw" =>
              \/ /\ mwIdx < Len(routers[cur].middleware)
                 /\ pc' = "mw"
                 /\ cur' = cur
                 /\ mwIdx' = mwIdx + 1
              \/ /\ mwIdx = Len(routers[cur].middleware)
                 /\ Len(log') > Len(log)
                 /\ log'[Len(log) + 1].ev \in {"delegate", "handler", "fail"}
                 /\ log'[Len(log) + 1].node = cur]_vars

\* A node ran its middleware and delegated to a child, which ran its own
\* middleware and answered with its handler.
C17_Witness ==
    /\ pc = "done"
    /\ Len(Entered) = 2
    /\ routers[Entered[1]].middleware # <<>>
    /\ routers[Entered[2]].middleware # <<>>
    /\ log[Len(log)].ev = "handler"

\* Whether node n is as New made it but for its filters and middleware: no
\* routes, no handler, and no fail handler set through Fail.
Bare(n) ==
    /\ routers[n].routes = <<>>
    /\ routers[n].handler = Nil
    /\ routers[n].fail \notin FailHandlers

WellFormedSegment(seg) ==
    \/ \A k \in DOMAIN seg : seg[k] \notin {"{", "}"}
    \/ /\ Len(seg) >= 5
       /\ Head(seg) = "{"
       /\ seg[Len(seg)] = "}"
       /\ \E c \in 3..(Len(seg) - 2) :
              /\ seg[c] = ":"
              /\ \A k \in 2..(c - 1) : seg[k] \in Word
              /\ LET typ == Slice(seg, c + 1, Len(seg) - 1)
                 IN typ \in {TypInt, TypStr, TypNat} \/ Compile(typ).ok

Malformed(template) ==
    \E k \in DOMAIN Segments(template) :
        ~WellFormedSegment(Segments(template)[k])

\* C19: Path does not return for a malformed template, and no placeholder
\* of a template for which Path returned has a type that fails to compile
\* when a request is dispatched.
C19_MalformedTemplateAborts ==
    /\ bench.stage \in {"built", "served"} => ~Malformed(bench.T)
    /\ bench.stage = "served" =>
           \A k \in DOMAIN Segments(Get(bench.fil).Path) :
               isVar(Segments(Get(bench.fil).Path)[k]) =>
                   ~varData(Segments(Get(bench.fil).Path)[k]).panic

\* What a dispatch of request r entered at node n does when it runs alone:
\* its last event, the answer at the node that is chosen, with the path that
\* remains and the variables; "panic" where Router.vars panics.
RECURSIVE Alone(_, _, _), AloneVars(_, _, _, _), AlonePick(_, _, _, _)
Alone(n, r, ctx) ==
    AloneVars(n, [r EXCEPT !.Path = StripPrefix(routers[n].filters, @)], ctx,
              RouterVars(routers[n].filters,
                         StripPrefix(routers[n].filters, r.Path)))

AloneVars(n, r, ctx, v) ==
    IF v.panic THEN Event("panic", n, Nil, 0, r.Path, ctx)
    ELSE AlonePick(n, r, IF v.set THEN Some(VarsMap(v.entries)) ELSE ctx,
                   Match(n, r))

AlonePick(n, r, ctx, sub) ==
    IF sub # 0 THEN Alone(sub, r, ctx)
    ELSE Event(Terminal(n).ev, n, Terminal(n).h, 0, r.Path, ctx)

\* The dispatch that is running, as a record like the parked one.
Running ==
    [req |-> req, ctxVars |-> ctxVars, cur |-> cur, pc |-> pc,
     mwIdx |-> mwIdx, log |-> log]

\* Whether the dispatch s of the planned request ended as it would alone.
EndsAsAlone(s, plan) ==
    /\ s.pc = "done" => s.log[Len(s.log)] = Alone(plan.rtr, plan.r, None)
    /\ s.pc = "panic" =>
           Alone(plan.rtr, plan.r, None) =
               Event("panic", s.cur, Nil, 0, s.req.Path, s.ctxVars)

\* C20: whatever the interleaving of two dispatches through one tree, no
\* field of any node changes, and each dispatch that is over ended at the
\* node, with the remaining path and with the variables it would have ended
\* with had it run alone.
C20_DispatchesDoNotInterfere ==
    bench.stage = "pair" =>
        /\ routers = PairTree
        /\ EndsAsAlone(Running, bench.plan[bench.id])
        /\ EndsAsAlone(bench.parked, bench.plan[3 - bench.id])

\* One dispatch was answered by the handler of the Path node with i = 42
\* while the other dispatch, of another request entered at the same root,
\* was parked halfway, its prefix cut and its middleware not yet run.
C20_Witness ==
    /\ bench.stage = "pair"
    /\ pc = "done"
    /\ log[1].node = 1
    /\ log[Len(log)].ev = "handler"
    /\ log[Len(log)].varsmap = (<<"i">> :> IntValue(FALSE, <<"4", "2">>))
    /\ bench.parked.pc = "mw"
    /\ bench.parked.log[1].node = 1
    /\ bench.parked.req.Path = <<"/", "a", "/", "s", "/", "7">>

\* The request as the host handed it to the node a dispatch entered at.
EntryRequest == [req EXCEPT !.Path = log[1].path]

\* Whether the dispatch is still inside the node it entered at.
AtEntry == \A k \in 2..Len(log) : log[k].ev # "enter"

\* Whether the filter set of the node the dispatch entered at rejects the
\* request it was entered with.
EntryRejects ==
    ~FiltersMatch(routers[log[1].node].filters, EntryRequest)

\* C21: a dispatch entered at a node whose own filter set rejects the
\* request goes on all the same: it does not abort inside that node, and
\* once the node is through, the node has cut its prefix, run all of its
\* middleware in order, and searched its children with the stripped path,
\* delegating to the first that accepts or answering itself.
C21_EntryIgnoresOwnFilters ==
    (log # <<>> /\ EntryRejects) =>
        LET n == log[1].node
            mw == routers[n].middleware
            m == Len(mw)
            stripped == [EntryRequest EXCEPT
                             !.Path = StripPrefix(routers[n].filters, @)]
        IN /\ AtEntry => pc # "panic"
           /\ (pc = "done" \/ ~AtEntry) =>
                  /\ Len(log) >= m + 2
                  /\ \A i \in 1..m :
                         /\ log[1 + i].ev = "mw"
                         /\ log[1 + i].h = mw[i]
                         /\ log[1 + i].path = stripped.Path
                  /\ log[m + 2].node = n
                  /\ log[m + 2].path = stripped.Path
                  /\ IF Match(n, stripped) # 0
                     THEN /\ log[m + 2].ev = "delegate"
                          /\ log[m + 2].sub = Match(n, stripped)
                     ELSE IsTerminal(log[m + 2])

\* The log positions of the visit that begins with the enter event at k: up
\* to the next enter event, or to the end of the log.
VisitOf(k) ==
    {j \in k..Len(log) : \A i \in (k + 1)..j : log[i].ev # "enter"}

\* What a visit that was entered with the path p and the context entry e
\* gives its later steps: the path without the node's prefix, and the
\* variables parsed from it, or else those the request came with.
VisitPath(n, p) == StripPrefix(routers[n].filters, p)
VisitVars(n, p, e) ==
    LET v == RouterVars(routers[n].filters, VisitPath(n, p)) IN
    IF v.set THEN [ok |-> TRUE, varsmap |-> VarsMap(v.entries)]
    ELSE [ok |-> e.ok, varsmap |-> e.varsmap]

\* C22: every visit of a node goes prefix stripping, variable extraction,
\* middleware, child search, answer.  While the stripping is due nothing
\* else of the visit has happened; when the extraction is due the path is
\* stripped; when the middleware is due the variables are parsed; every
\* middleware handler, the child search and the handler or fail handler are
\* given the stripped path and the variables parsed at the node; the
\* middleware comes before the delegation or the answer, which is the last
\* step of the visit; and the child is chosen by its filters on the stripped
\* path.
C22_FixedStepOrder ==
    \A k \in DOMAIN log :
        log[k].ev = "enter" =>
            LET n == log[k].node
                visit == VisitOf(k)
                last == CHOOSE j \in visit : \A i \in visit : i <= j
                open == last = Len(log)
                path == VisitPath(n, log[k].path)
                seen == VisitVars(n, log[k].path, log[k])
            IN /\ (open /\ pc = "strip") =>
                      /\ visit = {k}
                      /\ req.Path = log[k].path
                      /\ Vars(ctxVars).ok = log[k].ok
               /\ (open /\ pc = "vars") =>
                      /\ visit = {k}
                      /\ req.Path = path
                      /\ Vars(ctxVars).ok = log[k].ok
               /\ (open /\ pc = "mw") =>
                      /\ req.Path = path
                      /\ Vars(ctxVars) = seen
               /\ \A j \in visit \ {k} :
                      /\ log[j].path = path
                      /\ log[j].ok = seen.ok
                      /\ log[j].varsmap = seen.varsmap
                      /\ log[j].ev = "mw" \/ j = last
                      /\ log[j].ev = "delegate" =>
                             log[j].sub = Match(n, [req EXCEPT !.Path = path])

\* A node with the prefix /a, entered with /a/s/42, delegated to its child
\* with the template /s/{i:int}; the child's middleware ran with the path
\* /s/42 and i = 42, and the child answered with the same.
C22_Witness ==
    /\ pc = "done"
    /\ Len(log) = 5
    /\ log[1].path = <<"/", "a", "/", "s", "/", "4", "2">>
    /\ routers[log[1].node].filters.PathPrefix = Some(PrefixApi)
    /\ log[2].ev = "delegate"
    /\ routers[log[2].sub].filters.Path # None
    /\ Get(routers[log[2].sub].filters.Path).Path = TplSong
    /\ log[4].ev = "mw"
    /\ log[4].path = <<"/", "s", "/", "4", "2">>
    /\ log[4].varsmap = (<<"i">> :> IntValue(FALSE, <<"4", "2">>))
    /\ IsTerminal(log[5])
    /\ log[5].varsmap = log[4].varsmap

\* Whether a template segment has the shape {name:typespec}: it begins with
\* "{", ends with "}", and a name of word characters comes before its first
\* ":".
ShapedPlaceholder(seg) ==
    /\ Len(seg) >= 5
    /\ Head(seg) = "{"
    /\ seg[Len(seg)] = "}"
    /\ \E c \in 3..(Len(seg) - 2) :
           /\ seg[c] = ":"
           /\ \A k \in 2..(c - 1) : seg[k] \in Word

\* The text of a shaped placeholder between its first ":" and its last "}".
OutermostTypespec(seg) ==
    LET colons == {k \in DOMAIN seg : seg[k] = ":"}
        first == CHOOSE k \in colons : \A j \in colons : k <= j
        braces == {k \in DOMAIN seg : seg[k] = "}"}
        last == CHOOSE k \in braces : \A j \in braces : j <= k
    IN Slice(seg, first + 1, last - 1)

\* The matching rule of a template whose placeholders are read that way.
RECURSIVE OutermostExp(_)
OutermostExp(split) ==
    IF split = <<>> THEN <<>>
    ELSE LET e == Head(split)
             typ == OutermostTypespec(e)
             sub == IF ~ShapedPlaceholder(e) THEN e
                    ELSE IF typ = TypInt THEN IntPattern
                    ELSE IF typ = TypStr THEN StrPattern
                    ELSE IF typ = TypNat THEN NatPattern
                    ELSE typ
         IN <<"/">> \o sub \o OutermostExp(Tail(split))

\* C23: a template segment of the shape {name:typespec} is one placeholder
\* whose typespec is all of the text between its first ":" and its last
\* "}", braces and further ":" included: the filter accepts a request path
\* exactly when the rule built from those typespecs matches it.
C23_TypespecIsOutermostText ==
    (/\ bench.stage = "served"
     /\ \E k \in DOMAIN Segments(bench.T) :
            ShapedPlaceholder(Segments(bench.T)[k])) =>
        LET exp == OutermostExp(Segments(bench.T)) IN
        /\ Compile(exp).ok
        /\ bench.accepted <=> MatchString(exp, bench.P)

\* The values the int pattern is written for: 0, or a nonzero digit and
\* digits after an optional "-".
InIntPattern(v) ==
    \/ v = <<"0">>
    \/ /\ InIntGrammar(v)
       /\ v \notin {<<"0">>, <<"-", "0">>}

\* Whether the request segments rsplit fill the template segments fsplit:
\* every int or nat placeholder meets a value of the set given for its
\* type, and every segment of plain text meets the same text.
Fills(fsplit, rsplit, ints(_), nats(_)) ==
    /\ Len(fsplit) = Len(rsplit)
    /\ \E k \in DOMAIN fsplit : isVar(fsplit[k])
    /\ \A k \in DOMAIN fsplit :
           \/ IsPlaceholderOf(fsplit[k], TypInt) /\ ints(rsplit[k])
           \/ IsPlaceholderOf(fsplit[k], TypNat) /\ nats(rsplit[k])
           \/ /\ fsplit[k] = rsplit[k]
              /\ \A i \in DOMAIN fsplit[k] : fsplit[k][i] \in Word

\* C24 as stated: the rule of an int placeholder accepts every value made
\* of an optional "-" and then 0 or a nonzero digit and digits; the rule of
\* a nat placeholder accepts the same without the "-".
C24_SignedZeroAccepted ==
    (/\ bench.stage = "served"
     /\ Fills(Segments(bench.T), Segments(bench.P),
              InIntGrammar, InNatGrammar)) => bench.accepted

\* C24: the rule of an int placeholder accepts 0 and every value made of an
\* optional "-", a nonzero digit and digits; the rule of a nat placeholder
\* accepts 0 and every value made of a nonzero digit and digits; and the
\* int rule alone does not accept -0.
C24_IntAndNatRules ==
    bench.stage = "served" =>
        /\ Fills(Segments(bench.T), Segments(bench.P),
                 InIntPattern, InNatGrammar) => bench.accepted
        /\ (bench.T = TplInt /\ bench.P = <<"/", "-", "0">>) =>
               ~bench.accepted

\* The template /{i:int} accepted the path /-70.
C24_Witness ==
    /\ bench.stage = "served"
    /\ bench.T = TplInt
    /\ bench.P = <<"/", "-", "7", "0">>
    /\ bench.accepted

\* Whether strconv reports an error for the text of an int or nat variable.
ConversionError(typ, text) ==
    IF typ = TypInt THEN Atoi(text).err ELSE ParseUint(text).err

\* C25: for a request path the Path filter accepts, every int or nat
\* variable whose captured text is a number of its type's grammar is
\* converted without an error and holds exactly the number the text
\* denotes, however many digits it has.
C25_ConversionAlwaysSucceeds ==
    (bench.stage = "served" /\ bench.accepted) =>
        \A k \in DOMAIN bench.entries :
            LET e == bench.entries[k] IN
            (e.typ \in {TypInt, TypNat} /\ InGrammar(e.typ, e.exp)) =>
                /\ ~ConversionError(e.typ, e.exp)
                /\ e.val = NumberOf(e.typ, e.exp)

\* The routes of all nodes together.
AllRoutes == UNION {{<<n, k>> : k \in DOMAIN routers[n].routes} : n \in Nodes}

\* The routing structure is a tree rooted at node 1: every other node is a
\* route of exactly one node, once, and that node was made before it; the
\* routes of a node are in the order in which Subrouter made them.
RoutesFormTree ==
    /\ \A n \in Nodes \ {1} :
           Cardinality({e \in AllRoutes :
                            routers[e[1]].routes[e[2]] = n}) = 1
    /\ \A e \in AllRoutes :
           /\ routers[e[1]].routes[e[2]] \in Nodes \ {1}
           /\ e[1] < routers[e[1]].routes[e[2]]
    /\ \A n \in Nodes : \A i, j \in DOMAIN routers[n].routes :
           i < j => routers[n].routes[i] < routers[n].routes[j]

\* A step leaves every node's routes as they are, or makes one new node,
\* with an empty filter set and no routes, and appends it to the routes of
\* one node.
RoutesOnlyGrow ==
    /\ Len(routers') \in {Len(routers), Len(routers) + 1}
    /\ \A n \in Nodes :
           /\ Len(routers'[n].routes) >= Len(routers[n].routes)
           /\ SubSeq(routers'[n].routes, 1, Len(routers[n].routes)) =
                  routers[n].routes
    /\ Len(routers') = Len(routers) =>
           \A n \in Nodes : routers'[n].routes = routers[n].routes
    /\ Len(routers') = Len(routers) + 1 =>
           LET sub == Len(routers) + 1 IN
           /\ routers'[sub] = New
           /\ routers'[sub].filters = NewFilters
           /\ \E n \in Nodes :
                  /\ routers'[n].routes = Append(routers[n].routes, sub)
                  /\ \A o \in Nodes \ {n} :
                         routers'[o].routes = routers[o].routes

\* C26: the routes of a node only grow, by one new node with an empty
\* filter set appended per Subrouter call, are never removed or reordered,
\* are in the order of the Subrouter calls, and form a finite tree.
C26_ChildrenOnlyGrow == []RoutesFormTree /\ [][RoutesOnlyGrow]_vars

\* The root got two routes, the first of which got a route of its own and,
\* after that, a Methods filter.
C26_Witness ==
    /\ Len(routers) = 4
    /\ routers[1].routes = <<2, 3>>
    /\ routers[2].routes = <<4>>
    /\ routers[2].filters.Methods # None

\* C27: the request path changes only where a node with a PathPrefix filter
\* is entered: everything else that runs is given the path that whatever
\* ran before it was given, and so is the request in flight; when no node
\* entered has a PathPrefix filter, the handler or fail handler that answers
\* is given the path the dispatch was entered with.
C27_PathChangesOnlyByPrefix ==
    /\ \A k \in DOMAIN log :
           (k > 1 /\ log[k].path # log[k - 1].path) =>
               /\ log[k - 1].ev = "enter"
               /\ routers[log[k - 1].node].filters.PathPrefix # None
    /\ (log # <<>> /\ req.Path # log[Len(log)].path) =>
           /\ log[Len(log)].ev = "enter"
           /\ routers[log[Len(log)].node].filters.PathPrefix # None
    /\ (/\ log # <<>>
        /\ \A k \in DOMAIN log :
               routers[log[k].node].filters.PathPrefix = None) =>
           /\ req.Path = log[1].path
           /\ \A k \in DOMAIN log : log[k].path = log[1].path

\* A child chosen by its Path filter /s/{i:int}, below a root without a
\* PathPrefix filter, answered with its handler, which was given /s/42 as
\* the request came.
C27_Witness ==
    /\ pc = "done"
    /\ log[1].path = <<"/", "s", "/", "4", "2">>
    /\ \A k \in DOMAIN log : routers[log[k].node].filters.PathPrefix = None
    /\ LET e == log[Len(log)] IN
       /\ e.ev = "handler"
       /\ e.node # log[1].node
       /\ routers[e.node].filters.Path # None
       /\ e.path = <<"/", "s", "/", "4", "2">>

\* C28: when the variables of a node with a placeholder template are
\* extracted from a request path the node's Path filter accepted, the path
\* has at least as many segments as the template, and the extraction does
\* not run past the path's last segment.
C28_ExtractionFindsEverySegment ==
    (/\ bench.stage = "served"
     /\ bench.accepted
     /\ Get(bench.fil).hasVars) =>
        /\ Len(Segments(bench.P)) >= Len(Segments(Get(bench.fil).Path))
        /\ ~bench.panic

\* The log positions, up to k, of the entering of a node whose Path filter
\* has placeholders.
PlaceholderEnters(k) ==
    {j \in 1..k :
        /\ log[j].ev = "enter"
        /\ routers[log[j].node].filters.Path # None
        /\ Get(routers[log[j].node].filters.Path).hasVars}

\* C29: what Vars returns to a middleware handler, a handler or a fail
\* handler is the mapping computed by the node entered last, at or above
\* it, whose Path filter has placeholders, and nothing besides: the mapping
\* of a node further up is replaced, not added to.
C29_DeepestNodeReplacesVars ==
    \A k \in DOMAIN log :
        (log[k].ev \in {"mw", "handler", "fail"}
         /\ PlaceholderEnters(k) # {}) =>
            LET ps == PlaceholderEnters(k)
                j == CHOOSE i \in ps : \A h \in ps : h <= i
                n == log[j].node
                v == RouterVars(routers[n].filters,
                                VisitPath(n, log[j].path))
            IN /\ log[k].ok
               /\ log[k].varsmap = VarsMap(v.entries)

\* A node with the template /{k:str}/{i:nat} delegated /s/42 to its route
\* with the template /s/{i:int}: the node's middleware got k = s and the
\* nat 42, the route's middleware the int 42 and no k.
C29_Witness ==
    /\ Len(log) >= 5
    /\ log[2].ev = "mw"
    /\ log[2].varsmap =
           (<<"k">> :> StrValue(<<"s">>) @@ <<"i">> :> UintValue(<<"4", "2">>))
    /\ log[3].ev = "delegate"
    /\ log[5].ev = "mw"
    /\ log[5].varsmap = (<<"i">> :> IntValue(FALSE, <<"4", "2">>))

\* A step that is a Path call on node n which panicked.
PathPanicked(n) == pathCalls'[n] = Append(pathCalls[n], "PathPanic")

\* C30: a Path call that panics leaves the filter set of its node, and
\* every node of the tree, as it was: the Path filter set before, if any,
\* is kept and a PathPrefix filter is not cleared.
C30_AbortedPathLeavesFilters ==
    [][\A n \in Nodes :
           PathPanicked(n) =>
               /\ routers'[n].filters = routers[n].filters
               /\ routers' = routers]_vars

\* A node whose PathPrefix filter /a is still set after a Path call with
\* the template /{f:(} panicked on it.
C30_Witness ==
    \E n \in Nodes :
        /\ pathCalls[n] = <<"PathPrefix", "PathPanic">>
        /\ routers[n].filters.PathPrefix = Some(PrefixApi)
        /\ routers[n].filters.Path = None

====
